---------------------------- MODULE Spec2Model ----------------------------
(***************************************************************************)
(* A model of SimPEG's cylindrical mesh, SimPEG/Mesh/CylMesh.py.           *)
(*                                                                         *)
(* Numbers.  Radial and vertical lengths are exact rationals <<n, d>>      *)
(* (lowest terms, d >= 0); d = 0 encodes the IEEE values a float division  *)
(* by zero produces (<<1,0>> = inf, <<-1,0>> = -inf, <<0,0>> = nan).       *)
(* Quantities that carry a factor pi (edge lengths, face areas, volumes)   *)
(* are stored as their rational multiple of pi.  Rounding of the radial    *)
(* and vertical arithmetic is not modelled.  Theta widths are fixed-point  *)
(* integers, one unit being one rounding quantum of the float sum the      *)
(* constructor tests with ==; TwoPi is the value of 2*np.pi in quanta.     *)
(*                                                                         *)
(* Arrays are functions on 0..n-1, indexed as numpy indexes them.          *)
(* A value that may be None is a sequence: <<>> for None, <<v>> for v.     *)
(***************************************************************************)
EXTENDS Integers, Sequences, FiniteSets, TLC

VARIABLES
    h,      \* the caller's list h (the constructor writes into it)
    arr,    \* the array buffers: buffer id -> array
    mesh,   \* <<>> before construction, <<[h, x0]>> for the CylMesh instance
    cache,  \* the instance's memo attributes _edge, _area, ...
    nComp,  \* history: how often each geometry quantity has been computed
    ret     \* <<>> while the caller is idle, else <<[op, arg, hit, exc, val]>>

vars == <<h, arr, mesh, cache, nComp, ret>>

---------------------------------------------------------------------------
(* Bounds of the model *)

MaxNr == 2          \* radial cells
MaxNz == 1          \* vertical cells
MaxNt == 2          \* theta cells

WidthSet == {1, 2}          \* explicit radial and vertical widths
ThetaWidthSet == {6, 7, 12} \* explicit theta widths, in quanta

TwoPi == 12         \* 2*np.pi in quanta
ThetaTol == 1       \* the tolerance 1e-10 of the specification, in quanta

---------------------------------------------------------------------------
(* Rational arithmetic with the IEEE special values *)

Abs(x) == IF x < 0 THEN -x ELSE x

Sign(x) == IF x < 0 THEN -1 ELSE IF x > 0 THEN 1 ELSE 0

RECURSIVE GCD(_, _)
GCD(a, b) == IF b = 0 THEN a ELSE GCD(b, a % b)

Rat(n, d) ==
    IF d = 0 THEN <<Sign(n), 0>>
    ELSE LET g == GCD(Abs(n), Abs(d))
             s == IF d < 0 THEN -1 ELSE 1
         IN  <<(s * n) \div g, (s * d) \div g>>

R(n) == <<n, 1>>
Zero == <<0, 1>>
One == <<1, 1>>
Inf == <<1, 0>>
NaN == <<0, 0>>

IsFinite(a) == a[2] # 0

RAdd(a, b) ==
    IF a[2] = 0 /\ b[2] = 0 THEN (IF a = b THEN a ELSE NaN)
    ELSE IF a[2] = 0 THEN a
    ELSE IF b[2] = 0 THEN b
    ELSE LET g == GCD(a[2], b[2])
         IN  Rat(a[1] * (b[2] \div g) + b[1] * (a[2] \div g), (a[2] \div g) * b[2])

RNeg(a) == <<-a[1], a[2]>>
RSub(a, b) == RAdd(a, RNeg(b))
RMul(a, b) ==
    IF a[2] = 0 \/ b[2] = 0 THEN Rat(a[1] * b[1], 0)
    ELSE LET g1 == GCD(Abs(a[1]), b[2])
             g2 == GCD(Abs(b[1]), a[2])
         IN  Rat((a[1] \div g1) * (b[1] \div g2), (a[2] \div g2) * (b[2] \div g1))

RInv(b) == IF b[1] < 0 THEN <<-b[2], -b[1]>> ELSE <<b[2], b[1]>>

RDiv(a, b) ==
    IF a[2] = 0 \/ b[2] = 0 \/ b[1] = 0
    THEN (IF b[1] < 0 THEN Rat(-(a[1] * b[2]), a[2] * (-b[1]))
          ELSE Rat(a[1] * b[2], a[2] * b[1]))
    ELSE RMul(a, RInv(b))

RLt(a, b) ==
    IF a[2] = 0 \/ b[2] = 0 THEN a[1] * b[2] < b[1] * a[2]
    ELSE LET g == GCD(a[2], b[2])
         IN  a[1] * (b[2] \div g) < b[1] * (a[2] \div g)

RLe(a, b) == a # NaN /\ b # NaN /\ (a = b \/ RLt(a, b))
RAbs(a) == <<Abs(a[1]), a[2]>>
RSq(a) == RMul(a, a)

---------------------------------------------------------------------------
(* numpy arrays *)

Size(a) == Cardinality(DOMAIN a)

(* An ndarray holds its elements: they are computed once, when it is built *)
Stored(a) == a @@ <<>>

Arr(s) == [i \in 0..(Len(s) - 1) |-> s[i + 1]]

RECURSIVE RSumTo(_, _)
RSumTo(a, n) == IF n = 0 THEN Zero ELSE RAdd(RSumTo(a, n - 1), a[n - 1])

RSum(a) == RSumTo(a, Size(a))

RECURSIVE SeqsUpTo(_, _)
SeqsUpTo(S, n) ==
    IF n = 0 THEN {<<>>}
    ELSE LET T == SeqsUpTo(S, n - 1)
         IN  T \cup {Append(s, x) : s \in {t \in T : Len(t) = n - 1}, x \in S}

ArraysOver(S, n) == {Arr(s) : s \in SeqsUpTo(S, n) \ {<<>>}}

RoundDiv(a, n) == (2 * a + n) \div (2 * n)


---------------------------------------------------------------------------
(* Construction: CylMesh.__init__ *)

None == <<>>
Some(v) == <<v>>

IntEntry(n) == <<"int", n>>
ArrEntry(a) == <<"arr", a>>
Ref(id) == <<"ref", id>>

Axes == 0..2

(* line 26: (2*np.pi if i==1 else 1.)*np.ones(int(h_i))/int(h_i) *)
UniformWidths(i, n) ==
    IF i = 1 THEN [j \in 0..(n - 1) |-> R(RoundDiv(TwoPi, n))]
    ELSE [j \in 0..(n - 1) |-> Rat(1, n)]

(* The buffer that h[i] refers to after line 29.  An integer entry was
   expanded into a new array (buffer i + 3).  For an ndarray entry, h_i[:]
   is a basic slice: a view on the caller's own buffer (buffer i). *)
BufferOf(hin, i) == IF hin[i][1] = "int" THEN i + 3 ELSE i

(* line 31 *)
ThetaSumOk(hy) == RSum(hy) = R(TwoPi)

(* TensorMesh.__init__(self, h, x0): keeps the width arrays it is handed
   and the origin (x0 = None gives the zero origin). *)
TensorMeshInit(hl) == [h |-> [i \in Axes |-> hl[i][2]], x0 |-> [i \in Axes |-> Zero]]

NoCache ==
    [_edge |-> None, _area |-> None, _vol |-> None,
     _edgeCurl |-> None, _aveE2CC |-> None, _aveF2CC |-> None]

NoComp ==
    [vectorCCx |-> 0, vectorCCy |-> 0, vectorNx |-> 0, vectorNy |-> 0,
     edge |-> 0, area |-> 0, vol |-> 0]

(* What the caller holds after a call: the operation, its argument, whether
   the memo attribute of the operation was already set when it was entered,
   the exception raised ("" for none) and the value returned. *)
Returned(op, arg, hit, exc, val) ==
    Some([op |-> op, arg |-> arg, hit |-> hit, exc |-> exc, val |-> val])

(* What a caller may pass for each axis. *)
AxisInputs(i) ==
    LET mx == IF i = 0 THEN MaxNr ELSE IF i = 1 THEN MaxNt ELSE MaxNz
        ws == IF i = 1 THEN ThetaWidthSet ELSE WidthSet
    IN  {IntEntry(n) : n \in 1..mx}
        \cup {ArrEntry([j \in DOMAIN a |-> R(a[j])]) : a \in ArraysOver(ws, mx)}

ListInputs ==
    {[i \in Axes |-> IF i = 0 THEN a ELSE IF i = 1 THEN b ELSE c] :
        a \in AxisInputs(0), b \in AxisInputs(1), c \in AxisInputs(2)}

(* CylMesh.__init__(h) on the caller's list hin *)
CylMeshInit(hin) ==
    /\ LET a2 == [id \in {BufferOf(hin, i) : i \in Axes} |->
                    LET i == IF id >= 3 THEN id - 3 ELSE id
                    IN  IF hin[i][1] = "int" THEN UniformWidths(i, hin[i][2])
                        ELSE hin[i][2]]
           h2 == [i \in Axes |-> Ref(BufferOf(hin, i))]
       IN  /\ arr' = a2
           /\ h' = h2
           /\ IF ThetaSumOk(a2[h2[1][2]])
              THEN /\ mesh' = Some(TensorMeshInit(h2))
                   /\ ret' = Returned("__init__", None, FALSE, "", None)
              ELSE /\ mesh' = None
                   /\ ret' = Returned("__init__", None, FALSE, "AssertionError", None)
    /\ cache' = NoCache
    /\ nComp' = NoComp

(* One behaviour follows one constructor call: the caller builds the list,
   calls CylMesh(h) once and then works with the instance it got. *)
Construct ==
    /\ ret = None
    /\ mesh = None
    /\ DOMAIN arr = {}
    /\ \E hin \in ListInputs : CylMeshInit(hin)

(* The caller takes the returned value (or the exception) and goes on. *)
Return ==
    /\ ret # None
    /\ ret' = None
    /\ UNCHANGED <<h, arr, mesh, cache, nComp>>

---------------------------------------------------------------------------
(* The widths and the counts of the tensor base *)

hx == arr[mesh[1].h[0]]
hy == arr[mesh[1].h[1]]
hz == arr[mesh[1].h[2]]

nCx == Size(hx)
nCy == Size(hy)
nCz == Size(hz)
nC == nCx * nCy * nCz
nNz == nCz + 1

(* CylMesh's own counts *)
nNx == IF nCy = 1 THEN nCx ELSE nCx + 1

nNy == IF nCy = 1 THEN nCy - 1 ELSE nCy

nN == nNx * nNy * nNz

nFx == nC

---------------------------------------------------------------------------
(* Grid vectors *)

Half == <<1, 2>>

(* np.r_[0, w[:-1].cumsum()] *)
CumsumFromZero(w) == [i \in DOMAIN w |-> RSumTo(w, i)]

(* w.cumsum() *)
Cumsum(w) == [i \in DOMAIN w |-> RSumTo(w, i + 1)]

(* np.r_[0, w].cumsum() *)
NodesOf(w) == [i \in 0..Size(w) |-> RSumTo(w, i)]

CentersOf(w, shift) ==
    [i \in DOMAIN w |-> RSub(RAdd(RSumTo(w, i), RMul(w[i], Half)), shift)]

ShiftBy(v, shift) == [i \in DOMAIN v |-> RAdd(v[i], shift)]

vectorCCx ==
    IF nCy = 1 THEN CentersOf(hx, RDiv(hx[0], R(2))) ELSE CentersOf(hx, Zero)

vectorCCy == [i \in 0..(nCy - 1) |-> IF i = 0 THEN Zero ELSE hy[i - 1]]

vectorNx ==
    IF nCy = 1 THEN ShiftBy(Cumsum(hx), RNeg(RDiv(hx[0], R(2)))) ELSE NodesOf(hx)

vectorNy == ShiftBy(CumsumFromZero(hy), RMul(hy[0], Half))

vectorNz == ShiftBy(NodesOf(hz), mesh[1].x0[2])

RMax(a) == CHOOSE x \in {a[i] : i \in DOMAIN a} : \A j \in DOMAIN a : RLe(a[j], x)
RMin(a) == CHOOSE x \in {a[i] : i \in DOMAIN a} : \A j \in DOMAIN a : RLe(x, a[j])

(* ndgrid of two vectors, the first running fastest; rows are <<r, z>> *)
NdGrid(vx, vz) ==
    LET n == Size(vx)
    IN  [j \in 0..(n * Size(vz) - 1) |-> <<vx[j % n], vz[j \div n]>>]

gridN == NdGrid(vectorNx, vectorNz)

---------------------------------------------------------------------------
(* Geometry.  A property or method evaluated in the instance state
   st = [cache, nComp] yields [cache, nComp, exc, val]. *)

Bump(c, k) == IF c + k >= 2 THEN 2 ELSE c + k

Counted(n, q, k) == [n EXCEPT ![q] = Bump(n[q], k)]

Result(c, n, exc, val) == [cache |-> c, nComp |-> n, exc |-> exc, val |-> val]

Raise(st, exc) == Result(st.cache, st.nComp, exc, None)

(* 2*pi*c, as multiples of pi *)
TwoPiTimes(c) == [j \in DOMAIN c |-> RMul(R(2), c[j])]

(* g[:,0] *)
Column0(g) == [j \in DOMAIN g |-> g[j][1]]

EdgeLengths == TwoPiTimes(Column0(gridN))

edgeUnmemoized(st) ==
    IF nCy = 1
    THEN Result([st.cache EXCEPT !._edge = Some(EdgeLengths)],
                Counted(st.nComp, "edge", 1), "", Some(EdgeLengths))
    ELSE Raise(st, "NotImplementedError")

edge(st) ==
    IF st.cache._edge = None
    THEN IF nCy = 1
         THEN Result([st.cache EXCEPT !._edge = Some(EdgeLengths)],
                     Counted(st.nComp, "edge", 1), "", Some(EdgeLengths))
         ELSE Raise(st, "NotImplementedError")
    ELSE Result(st.cache, st.nComp, "", st.cache._edge)

(* pi*(vectorNx**2 - np.r_[0, vectorNx[:-1]]**2), as multiples of pi *)
AnnulusAreasNoAxis(v) ==
    [i \in DOMAIN v |-> RSub(RSq(v[i]), RSq(IF i = 0 THEN v[0] ELSE v[i - 1]))]

AnnulusAreas(v) ==
    [i \in DOMAIN v |-> RSub(RSq(v[i]), RSq(IF i = 0 THEN Zero ELSE v[i - 1]))]

RingAreas == AnnulusAreas(vectorNx)

(* np.kron of two vectors *)
KronVec(a, b) ==
    [j \in 0..(Size(a) * Size(b) - 1) |-> RMul(a[j \div Size(b)], b[j % Size(b)])]

Concat(a, b) ==
    [j \in 0..(Size(a) + Size(b) - 1) |-> IF j < Size(a) THEN a[j] ELSE b[j - Size(a)]]

FaceAreas ==
    LET areaR == KronVec(hz, TwoPiTimes(vectorNx))
        areaZ == KronVec([k \in 0..nCz |-> One], RingAreas)
    IN  Concat(areaR, areaZ)

area(st) ==
    IF st.cache._area = None
    THEN IF nCy > 1
         THEN Raise(st, "NotImplementedError")
         ELSE Result([st.cache EXCEPT !._area = Some(FaceAreas)],
                     Counted(Counted(st.nComp, "vectorNx", 3), "area", 1),
                     "", Some(FaceAreas))
    ELSE Result(st.cache, st.nComp, "", st.cache._area)

CellVolumes == KronVec(hz, RingAreas)

vol(st) ==
    IF st.cache._vol = None
    THEN IF nCy > 1
         THEN Raise(st, "NotImplementedError")
         ELSE Result([st.cache EXCEPT !._vol = Some(CellVolumes)],
                     Counted(Counted(st.nComp, "vectorNx", 2), "vol", 1),
                     "", Some(CellVolumes))
    ELSE Result(st.cache, st.nComp, "", st.cache._vol)

---------------------------------------------------------------------------
(* Sparse matrices, as [m, n, at] with at[<<i, j>>] the entry of row i, column j *)

Cells(m, n) == (0..(m - 1)) \X (0..(n - 1))

(* sp.spdiags(data, offs, m, n) with data[k] constant vals[k]: data[k][j]
   goes to column j of diagonal offs[k], that is to row j - offs[k] *)
SpDiags(vals, offs, m, n) ==
    [m |-> m, n |-> n,
     at |-> [p \in Cells(m, n) |->
                IF \E k \in DOMAIN offs : p[2] - p[1] = offs[k]
                THEN vals[CHOOSE k \in DOMAIN offs : p[2] - p[1] = offs[k]]
                ELSE Zero]]

Eye(n) == [m |-> n, n |-> n, at |-> [p \in Cells(n, n) |-> IF p[1] = p[2] THEN One ELSE Zero]]

Kron(A, B) ==
    [m |-> A.m * B.m, n |-> A.n * B.n,
     at |-> [p \in Cells(A.m * B.m, A.n * B.n) |->
                RMul(A.at[<<p[1] \div B.m, p[2] \div B.n>>],
                     B.at[<<p[1] % B.m, p[2] % B.n>>])]]

MatNeg(A) == [A EXCEPT !.at = [p \in DOMAIN A.at |-> RNeg(A.at[p])]]

VStack(A, B) ==
    [m |-> A.m + B.m, n |-> A.n,
     at |-> [p \in Cells(A.m + B.m, A.n) |->
                IF p[1] < A.m THEN A.at[p] ELSE B.at[<<p[1] - A.m, p[2]>>]]]

Transpose(A) ==
    [m |-> A.n, n |-> A.m, at |-> [p \in Cells(A.n, A.m) |-> A.at[<<p[2], p[1]>>]]]

(* sp.diags(l, 0) * A * sp.diags(r, 0) *)
DiagScale(l, A, r) ==
    [A EXCEPT !.at = [p \in DOMAIN A.at |-> RMul(RMul(l[p[1]], A.at[p]), r[p[2]])]]

(* A * sdiag(r) *)
ScaleColumns(A, r) == [A EXCEPT !.at = [p \in DOMAIN A.at |-> RMul(A.at[p], r[p[2]])]]

---------------------------------------------------------------------------
(* Operators *)

Diff_dr == SpDiags(<<R(-1), One>>, <<-1, 0>>, nCx, nCx)
Diff_dz == SpDiags(<<R(-1), One>>, <<0, 1>>, nCz, nCz + 1)

Diff_Dr == Kron(Eye(nNz), Diff_dr)
Diff_Dz_Unsigned == Kron(Diff_dz, Eye(nCx))

Diff_Dz == MatNeg(Kron(Diff_dz, Eye(nCx)))

CurlMatrix(areas, edges) ==
    DiagScale([i \in DOMAIN areas |-> RDiv(One, areas[i])],
              VStack(Diff_Dz, Diff_Dr),
              edges)

edgeCurl(st) ==
    IF st.cache._edgeCurl = None
    THEN LET ra == area(st)
         IN  IF ra.exc # "" THEN Raise(ra, ra.exc)
             ELSE LET re == edge(ra)
                  IN  IF re.exc # "" THEN Raise(re, re.exc)
                      ELSE LET c == CurlMatrix(ra.val[1], re.val[1])
                           IN  Result([re.cache EXCEPT !._edgeCurl = Some(c)],
                                      re.nComp, "", Some(c))
    ELSE Result(st.cache, st.nComp, "", st.cache._edgeCurl)

Ave_az == SpDiags(<<Half, Half>>, <<-1, 0>>, nNz, nCz)

Ave_ar ==
    LET a == SpDiags(<<Half, Half>>, <<0, 1>>, nCx, nCx)
    IN  [a EXCEPT !.at[<<0, 0>>] = One]

AveE2CCMatrix == Transpose(Kron(Ave_az, Ave_ar))

aveE2CC(st) ==
    IF st.cache._aveE2CC = None
    THEN Result([st.cache EXCEPT !._aveE2CC = Some(AveE2CCMatrix)],
                st.nComp, "", Some(AveE2CCMatrix))
    ELSE Result(st.cache, st.nComp, "", st.cache._aveE2CC)

AveF2CCMatrix ==
    LET Afr == Kron(Eye(nCz), Ave_ar)
        Afz == Kron(Ave_az, Eye(nCx))
    IN  Transpose(VStack(Afr, Afz))

aveF2CC(st) ==
    IF st.cache._aveF2CC = None
    THEN Result([st.cache EXCEPT !._aveF2CC = Some(AveF2CCMatrix)],
                st.nComp, "", Some(AveF2CCMatrix))
    ELSE Result(st.cache, st.nComp, "", st.cache._aveF2CC)

(* Av.T * sdiag(self.vol) *)
MassDeriv(rav) ==
    LET rv == vol(rav)
    IN  IF rv.exc # "" THEN Raise(rv, rv.exc)
        ELSE Result(rv.cache, rv.nComp, "",
                    Some(ScaleColumns(Transpose(rav.val[1]), rv.val[1])))

getFaceMassDeriv(st) == MassDeriv(aveF2CC(st))

getEdgeMassDeriv(st) == MassDeriv(aveE2CC(st))

---------------------------------------------------------------------------
(* Interpolation: getInterpolationMat *)

(* Face counts and the vertical-face grid of the axisymmetric mesh *)
nFy == nCx * (nCy - 1) * nCz
nFz == nCx * nCy * (nCz + 1)
nF == nFx + nFy + nFz
nFr == nFx
vectorCCr == vectorCCx
gridFz == NdGrid(vectorCCr, vectorNz)

ZTol == <<1, 1000>>

InBoundsNoUpperZ(loc) ==
    LET rmax == RMax(vectorNx)
        zmin == RMin(vectorNz)
    IN  /\ \A i \in DOMAIN loc : RLe(loc[i][1], rmax)
        /\ \A i \in DOMAIN loc : RLe(zmin, loc[i][2])

(* lines 302-304 *)
InBounds(loc) ==
    LET rmax == RMax(vectorNx)
        zmin == RMin(vectorNz)
        zmax == RMax(vectorNz)
    IN  /\ \A i \in DOMAIN loc : RLe(loc[i][1], rmax)
        /\ \A i \in DOMAIN loc : RLe(zmin, loc[i][2])
        /\ \A i \in DOMAIN loc : RLe(loc[i][2], zmax)

(* np.argmin: the first index of a least element *)
ArgMin(a) ==
    CHOOSE j \in DOMAIN a :
        /\ \A i \in DOMAIN a : ~RLt(a[i], a[j])
        /\ \A i \in DOMAIN a : i < j => RLt(a[j], a[i])

(* np.sum(d**2, axis=1) *)
SqNorms(d) == [j \in DOMAIN d |-> RAdd(RSq(d[j][1]), RSq(d[j][2]))]

(* g[j] for a Python index j, negative indices counting from the end *)
Item(g, j) == IF j < 0 THEN g[j + Size(g)] ELSE g[j]

(* Q[i, col] = x on a lil_matrix row: a zero is not stored *)
SetItem(row, col, x) == [row EXCEPT ![col] = x]

EmptyRow == [c \in 0..(nF - 1) |-> Zero]

OnInterface(iloc) ==
    \E k \in DOMAIN vectorNz : RLt(RAbs(RSub(vectorNz[k], iloc[2])), ZTol)

(* lines 314-326; G is self.gridFz *)
RowOnInterface(G, iloc) ==
    LET dFz == [j \in DOMAIN G |->
                   IF RLt(Zero, RSub(G[j][1], iloc[1]))
                   THEN <<Inf, Inf>>
                   ELSE <<RSub(G[j][1], iloc[1]), RSub(G[j][2], iloc[2])>>]
        indL == ArgMin(Stored(SqNorms(dFz)))
    IN  IF G[indL][1] = RMax(vectorCCr)
        THEN LET zFL == G[indL]
                 zFLL == Item(G, indL - 1)
                 q1 == SetItem(EmptyRow, indL + nFr,
                               RDiv(RSub(iloc[1], zFLL[1]), RSub(zFL[1], zFLL[1])))
             IN  SetItem(q1, indL + nFr - 1,
                         RDiv(RNeg(RSub(iloc[1], zFL[1])), RSub(zFL[1], zFLL[1])))
        ELSE LET zFL == G[indL]
                 zFR == G[indL + 1]
                 q1 == SetItem(EmptyRow, indL + nFr,
                               RDiv(RSub(zFR[1], iloc[1]), RSub(zFR[1], zFL[1])))
             IN  SetItem(q1, indL + nFr + 1,
                         RDiv(RSub(iloc[1], zFL[1]), RSub(zFR[1], zFL[1])))

(* lines 329-368; G is self.gridFz *)
RowInCell(G, iloc) ==
    LET cut(x) == IF RLt(Zero, x) THEN Inf ELSE x
        dFz == [j \in DOMAIN G |->
                   <<cut(RSub(G[j][1], iloc[1])), cut(RSub(G[j][2], iloc[2]))>>]
        indBL == ArgMin(Stored(SqNorms(dFz)))
        indAL == indBL + nCx
        zF_BL == G[indBL]
        zF_AL == G[indAL]
        dzB == RSub(iloc[2], zF_BL[2])
        dzA == RSub(zF_AL[2], iloc[2])
    IN  IF G[indBL][1] = RMax(vectorCCr)
        THEN LET zF_BLL == Item(G, indBL - 1)
                 zF_ALL == Item(G, indAL - 1)
                 DZ == RSub(zF_AL[2], zF_BL[2])
                 DR == RSub(zF_AL[1], zF_ALL[1])
                 drL == RSub(iloc[1], zF_AL[1])
                 drLL == RSub(iloc[1], zF_ALL[1])
                 lo == RSub(One, RDiv(dzB, DZ))
                 hi == RDiv(dzB, DZ)
                 q1 == SetItem(EmptyRow, indBL + nFr - 1, RMul(RNeg(lo), RDiv(drL, DR)))
                 q2 == SetItem(q1, indBL + nFr, RMul(lo, RDiv(drLL, DR)))
                 q3 == SetItem(q2, indAL + nFr - 1, RMul(RNeg(hi), RDiv(drL, DR)))
             IN  SetItem(q3, indAL + nFr, RMul(hi, RDiv(drLL, DR)))
        ELSE LET indBR == indBL + 1
                 indAR == indAL + 1
                 zF_BR == G[indBR]
                 drL == RSub(iloc[1], zF_BL[1])
                 drR == RSub(zF_BR[1], iloc[1])
                 drz == RMul(RAdd(drL, drR), RAdd(dzB, dzA))
                 q1 == SetItem(EmptyRow, indBL + nFr, RDiv(RMul(drR, dzA), drz))
                 q2 == SetItem(q1, indBR + nFr, RDiv(RMul(drL, dzA), drz))
                 q3 == SetItem(q2, indAL + nFr, RDiv(RMul(drR, dzB), drz))
             IN  SetItem(q3, indAR + nFr, RDiv(RMul(drL, dzB), drz))

(* G is self.gridFz *)
InterpRow(G, iloc) ==
    IF OnInterface(iloc) THEN RowOnInterface(G, iloc) ELSE RowInCell(G, iloc)

FromRows(rows, n) ==
    [m |-> Size(rows), n |-> n, at |-> [p \in Cells(Size(rows), n) |-> rows[p[1]][p[2]]]]

InterpMatrix(loc) ==
    LET G == Stored(gridFz)
    IN  FromRows(Stored([i \in DOMAIN loc |-> InterpRow(G, loc[i])]), nF)

getInterpolationMat(st, loc, locType) ==
    LET n1 == Counted(st.nComp, "vectorNx", 1)
    IN  IF ~InBounds(loc) THEN Result(st.cache, n1, "AssertionError", None)
        ELSE IF locType = "fz" THEN Result(st.cache, n1, "", Some(InterpMatrix(loc)))
        ELSE IF locType \in {"fr", "et"} THEN Result(st.cache, n1, "NotImplementedError", None)
        ELSE Result(st.cache, n1, "ValueError", None)

(* Query points: the samples, the points between them, the outer half cell,
   the outer boundary, and points outside the mesh on every side *)
Mid(a, b) == RMul(RAdd(a, b), Half)

QueryR ==
    {RNeg(Half), RMax(vectorNx), RAdd(RMax(vectorNx), Half),
     Mid(RMax(vectorCCr), RMax(vectorNx))}
    \cup {vectorCCr[i] : i \in DOMAIN vectorCCr}
    \cup {Mid(vectorCCr[i - 1], vectorCCr[i]) : i \in DOMAIN vectorCCr \ {0}}

QueryZ ==
    {RSub(RMin(vectorNz), Half), RAdd(RMax(vectorNz), Half),
     RAdd(vectorNz[0], RMul(ZTol, Half))}
    \cup {vectorNz[k] : k \in DOMAIN vectorNz}
    \cup {Mid(vectorNz[k - 1], vectorNz[k]) : k \in DOMAIN vectorNz \ {0}}

QueryPoints == QueryR \X QueryZ

(* Points for the batches of two: a sample of gridFz, a point inside the
   outer half cell, a point beyond the outer radius, a point above the top *)
PairPoints ==
    {<<vectorCCr[0], vectorNz[0]>>,
     <<Mid(RMax(vectorCCr), RMax(vectorNx)), Mid(vectorNz[0], vectorNz[1])>>,
     <<RAdd(RMax(vectorNx), Half), Mid(vectorNz[0], vectorNz[1])>>,
     <<vectorCCr[0], RAdd(RMax(vectorNz), Half)>>}

PairBatches == {Arr(<<p, q>>) : p \in PairPoints, q \in PairPoints}

Batches == {Arr(<<p>>) : p \in QueryPoints} \cup PairBatches

LocTypes == {"fz", "fr", "et", "xx"}

(* The calls a caller makes: 'fz' with every batch, the other location
   types with the batches of two *)
Queries ==
    {[loc |-> b, locType |-> "fz"] : b \in Batches}
    \cup {[loc |-> b, locType |-> t] : b \in PairBatches, t \in LocTypes \ {"fz"}}

---------------------------------------------------------------------------
(* Calls *)

Here == [cache |-> cache, nComp |-> nComp]

Memo(op) ==
    CASE op = "edge" -> cache._edge
      [] op = "area" -> cache._area
      [] op = "vol" -> cache._vol
      [] op = "edgeCurl" -> cache._edgeCurl
      [] op = "aveE2CC" -> cache._aveE2CC
      [] op = "aveF2CC" -> cache._aveF2CC
      [] OTHER -> None

CallWith(op, arg, r) ==
    LET res == r
    IN  /\ cache' = res.cache
        /\ nComp' = res.nComp
        /\ ret' = Returned(op, arg, Memo(op) # None, res.exc, res.val)
        /\ UNCHANGED <<h, arr, mesh>>

(* The caller is idle and holds an instance. *)
Ready == ret = None /\ mesh # None

(* A property that is not memoized: every access evaluates it. *)
Unmemoized(q, v) == Result(cache, Counted(nComp, q, 1), "", Some(v))

GetVectorCCx ==
    /\ Ready
    /\ CallWith("vectorCCx", None, Unmemoized("vectorCCx", vectorCCx))

GetVectorCCy ==
    /\ Ready
    /\ CallWith("vectorCCy", None, Unmemoized("vectorCCy", vectorCCy))

GetVectorNx ==
    /\ Ready
    /\ CallWith("vectorNx", None, Unmemoized("vectorNx", vectorNx))

GetVectorNy ==
    /\ Ready
    /\ CallWith("vectorNy", None, Unmemoized("vectorNy", vectorNy))

GetNN ==
    /\ Ready
    /\ CallWith("nN", None, Result(cache, nComp, "", Some(nN)))

GetEdge ==
    /\ Ready
    /\ CallWith("edge", None, edge(Here))

GetArea ==
    /\ Ready
    /\ CallWith("area", None, area(Here))

GetVol ==
    /\ Ready
    /\ CallWith("vol", None, vol(Here))


GetEdgeCurl ==
    /\ Ready
    /\ CallWith("edgeCurl", None, edgeCurl(Here))

GetAveE2CC ==
    /\ Ready
    /\ CallWith("aveE2CC", None, aveE2CC(Here))

GetAveF2CC ==
    /\ Ready
    /\ CallWith("aveF2CC", None, aveF2CC(Here))

GetFaceMassDeriv ==
    /\ Ready
    /\ CallWith("getFaceMassDeriv", None, getFaceMassDeriv(Here))

GetEdgeMassDeriv ==
    /\ Ready
    /\ CallWith("getEdgeMassDeriv", None, getEdgeMassDeriv(Here))

(* The grid of a mesh with several theta cells is not laid out here, so
   the query is modelled on the axisymmetric mesh. *)
GetInterpolationMat ==
    /\ Ready
    /\ nCy = 1
    /\ \E q \in Queries :
          CallWith("getInterpolationMat", Some(q),
                   getInterpolationMat(Here, q.loc, q.locType))

(* The caller writes an element of an array it passed to the constructor. *)
CallerWrite ==
    /\ Ready
    /\ \E id \in DOMAIN arr \cap Axes :
          \E j \in DOMAIN arr[id], w \in (IF id = 1 THEN ThetaWidthSet ELSE WidthSet) :
              /\ arr[id][j] # R(w)
              /\ arr' = [arr EXCEPT ![id][j] = R(w)]
    /\ UNCHANGED <<h, mesh, cache, nComp, ret>>

Init ==
    /\ h = [i \in Axes |-> IntEntry(1)]
    /\ arr = <<>>
    /\ mesh = None
    /\ cache = NoCache
    /\ nComp = NoComp
    /\ ret = None

NextGeom ==
    \/ Construct
    \/ Return
    \/ GetVectorCCx \/ GetVectorNx
    \/ GetEdge \/ GetArea \/ GetVol

SpecGeom == Init /\ [][NextGeom]_vars

Next ==
    \/ Construct
    \/ Return
    \/ GetNN
    \/ GetEdge \/ GetArea \/ GetVol
    \/ GetEdgeCurl \/ GetAveE2CC \/ GetAveF2CC
    \/ GetFaceMassDeriv \/ GetEdgeMassDeriv

Spec == Init /\ [][Next]_vars

NextInterp ==
    \/ Construct
    \/ Return
    \/ GetInterpolationMat

SpecInterp == Init /\ [][NextInterp]_vars


NextCaller ==
    \/ Construct
    \/ Return
    \/ CallerWrite
    \/ GetVectorNx \/ GetVectorCCy \/ GetVectorNy
    \/ GetVol

SpecCaller == Init /\ [][NextCaller]_vars

---------------------------------------------------------------------------
(* Properties *)

Got(op) == ret # None /\ ret[1].op = op

Axisymmetric == mesh # None /\ nCy = 1

(* The node radii r_i of the axisymmetric mesh, with r_{-1} = 0 *)
NodeRadius(i) == IF i < 0 THEN Zero ELSE vectorNx[i]

ExpectedCurlEntry(row, col) ==
    LET nr == nCx
        nz == nCz
    IN  IF row < nr * nz
        THEN LET i == row % nr
                 k == row \div nr
             IN  IF col = k * nr + i THEN RDiv(One, hz[k])
                 ELSE IF col = (k + 1) * nr + i THEN RNeg(RDiv(One, hz[k]))
                 ELSE Zero
        ELSE LET i == (row - nr * nz) % nr
                 k == (row - nr * nz) \div nr
                 den == RSub(RSq(NodeRadius(i)), RSq(NodeRadius(i - 1)))
             IN  IF col = k * nr + i THEN RDiv(RMul(R(2), NodeRadius(i)), den)
                 ELSE IF i > 0 /\ col = k * nr + i - 1
                      THEN RNeg(RDiv(RMul(R(2), NodeRadius(i - 1)), den))
                 ELSE Zero

ExpectedCurl ==
    LET rows == nCx * nCz + nCx * (nCz + 1)
        cols == nCx * (nCz + 1)
    IN  [m |-> rows, n |-> cols,
         at |-> [p \in Cells(rows, cols) |-> ExpectedCurlEntry(p[1], p[2])]]

(* C1: on an axisymmetric mesh edgeCurl has one row per face (the nr*nz
   radial faces, then the nr*(nz+1) vertical faces), one column per edge,
   and exactly the entries +1/hz_k, -1/hz_k on a radial-face row and
   2*r_i/(r_i^2 - r_{i-1}^2), -2*r_{i-1}/(r_i^2 - r_{i-1}^2) on a
   vertical-face row, with r_{-1} = 0 and no second entry for i = 0. *)
C1_EdgeCurlEntries ==
    (Got("edgeCurl") /\ Axisymmetric)
        => (ret[1].exc = "" /\ ret[1].val = Some(ExpectedCurl))

C1_Witness ==
    /\ Got("edgeCurl")
    /\ Axisymmetric
    /\ ret[1].exc = ""
    /\ nCx >= 2
    /\ hx[0] # hx[1]

(* C2: on an axisymmetric mesh the total node count nN is nr*(nz+1). *)
C2_NodeCount ==
    (Got("nN") /\ Axisymmetric) => ret[1].val = Some(nCx * (nCz + 1))

MatrixOps == {"edgeCurl", "aveE2CC", "aveF2CC", "getEdgeMassDeriv", "getFaceMassDeriv"}

(* C3: on a mesh with more than one theta cell, every request for edgeCurl,
   aveE2CC, aveF2CC, getEdgeMassDeriv or getFaceMassDeriv fails with the
   not-implemented error, whatever was requested before. *)
C3_NotImplemented3D ==
    (ret # None /\ ret[1].op \in MatrixOps /\ nCy > 1)
        => ret[1].exc = "NotImplementedError"

(* C4: on an axisymmetric mesh the cell volumes sum to
   pi * vectorNx.max()^2 * sum(hz)  (both sides as multiples of pi). *)
C4_VolumeSum ==
    (Got("vol") /\ Axisymmetric)
        => /\ ret[1].exc = ""
           /\ RSum(ret[1].val[1]) = RMul(RSq(RMax(vectorNx)), RSum(hz))

C4_Witness ==
    /\ Got("vol")
    /\ Axisymmetric
    /\ ret[1].exc = ""
    /\ nCx >= 2
    /\ nComp.area = 1

(* C9: construction succeeds exactly when the theta widths sum to 2*pi
   within the tolerance, and an integer theta count is always accepted. *)
C9_ThetaTolerance ==
    Got("__init__")
        => /\ (ret[1].exc = "")
                <=> RLe(RAbs(RSub(RSum(arr[h[1][2]]), R(TwoPi))), R(ThetaTol))
           /\ (h[1][2] >= 3 => ret[1].exc = "")

MeshWidths == [i \in Axes |-> arr[mesh[1].h[i]]]

(* C10: after the constructor has returned, a write by the caller to an
   array it passed in h changes none of the mesh's widths. *)
C10_WidthsIsolated ==
    [][(mesh # None /\ mesh' # None) => MeshWidths' = MeshWidths]_vars

Memoized == {"edge", "area", "vol"}

RowOf(M, i) == [c \in 0..(M.n - 1) |-> M.at[<<i, c>>]]

Interpolated ==
    /\ Got("getInterpolationMat")
    /\ ret[1].arg[1].locType = "fz"
    /\ ret[1].exc = ""

(* C6: on an axisymmetric mesh, the weights of every row that
   getInterpolationMat(loc, 'fz') returns sum to exactly 1. *)
C6_RowsSumToOne ==
    Interpolated
        => \A i \in DOMAIN ret[1].arg[1].loc : RSum(RowOf(ret[1].val[1], i)) = One

UnitRow(n, c0) == [c \in 0..(n - 1) |-> IF c = c0 THEN One ELSE Zero]

(* C7: a query point that is row j of gridFz gets a row whose only nonzero
   entry is a 1 in column nFr + j. *)
C7_ExactAtSamples ==
    Interpolated
        => \A i \in DOMAIN ret[1].arg[1].loc : \A j \in DOMAIN gridFz :
              ret[1].arg[1].loc[i] = gridFz[j]
                  => RowOf(ret[1].val[1], i) = UnitRow(nF, nFr + j)

Outside(p) ==
    \/ RLt(RMax(vectorNx), p[1])
    \/ RLt(p[2], RMin(vectorNz))
    \/ RLt(RMax(vectorNz), p[2])

(* C8: getInterpolationMat fails with the points-outside-mesh error, with
   no matrix built, exactly when some query point of the batch lies outside
   the radial or the vertical extent; a call returns a matrix with one row
   per query point or returns nothing. *)
C8_BoundsAllOrNothing ==
    Got("getInterpolationMat")
        => LET loc == ret[1].arg[1].loc
           IN  /\ (ret[1].exc = "AssertionError") <=> (\E i \in DOMAIN loc : Outside(loc[i]))
               /\ ret[1].exc # "" => ret[1].val = None
               /\ ret[1].exc = ""
                     => /\ ret[1].val # None
                        /\ ret[1].val[1].m = Size(loc)
                        /\ ret[1].val[1].n = nF

C8_Witness ==
    /\ Got("getInterpolationMat")
    /\ ret[1].exc = "AssertionError"
    /\ ret[1].val = None
    /\ Size(ret[1].arg[1].loc) = 2
    /\ ~Outside(ret[1].arg[1].loc[0])
    /\ RLt(RMax(vectorNz), ret[1].arg[1].loc[1][2])
    /\ ret[1].arg[1].locType = "fz"

=============================================================================
